---- MODULE Spec2Model ----
(***************************************************************************)
(* The probability/optimisation kernel of probability-optimizer:           *)
(* calculateSDistribution, calculateMaxExpectation, calculateR,            *)
(* calculateExpectationForP, findOptimalP and sensitivityAnalysis.          *)
(*                                                                         *)
(* Numbers.  The kernel computes with JavaScript numbers.  The model       *)
(* computes exactly: a number is  n/d + t * 10^-11  with n/d a reduced      *)
(* fraction and t a (small) integer count of units of 10^-11.  The t part  *)
(* exists so that multipliers r with 0 < |r - 1| < 1e-10, which the code    *)
(* treats specially, are values of the model.  Since TLC's integers are    *)
(* below 2^31 < 10^11 and |t| is small, two numbers compare by their        *)
(* fractions first and by t on equal fractions.  Rounding of IEEE doubles  *)
(* is not modelled: every property below is about the exact real values.   *)
(***************************************************************************)
EXTENDS Integers, Sequences, FiniteSets, TLC

VARIABLES pc, op, args, left, right, idx, results, ret, evals

vars == <<pc, op, args, left, right, idx, results, ret, evals>>

----------------------------------------------------------------------------
\* Exact arithmetic on numbers [n, d, t] = n/d + t * 10^-11.

RECURSIVE GCD(_, _)
GCD(a, b) == IF b = 0 THEN a ELSE GCD(b, a % b)

LCM(a, b) == (a \div GCD(a, b)) * b

AbsInt(a) == IF a < 0 THEN -a ELSE a

Norm(n, d, t) ==
    LET g == GCD(AbsInt(n), AbsInt(d))
        s == IF d < 0 THEN -1 ELSE 1
    IN  [n |-> s * (n \div g), d |-> s * (d \div g), t |-> t]

Rat(n, d) == Norm(n, d, 0)

Num(k) == [n |-> k, d |-> 1, t |-> 0]

Zero == Num(0)

One == Num(1)

\* -Infinity, the sentinel of calculateExpectationForP.
NegInf == [n |-> -1, d |-> 0, t |-> 0]

Add(x, y) ==
    LET g == GCD(x.d, y.d)
    IN  Norm(x.n * (y.d \div g) + y.n * (x.d \div g), x.d * (y.d \div g), x.t + y.t)

Neg(x) == [n |-> -x.n, d |-> x.d, t |-> -x.t]

Sub(x, y) == Add(x, Neg(y))

\* The 10^-11 part of a product is exact when the other factor is an integer;
\* no other product of such a number occurs (the CHOOSE would stop TLC).
Mul(x, y) ==
    LET g1 == GCD(AbsInt(x.n), y.d)
        g2 == GCD(AbsInt(y.n), x.d)
        t  == IF x.t = 0 /\ y.t = 0 THEN 0
              ELSE IF /\ (x.t # 0 => y.d = 1 /\ y.t = 0)
                      /\ (y.t # 0 => x.d = 1 /\ x.t = 0)
                   THEN x.t * y.n + y.t * x.n
                   ELSE CHOOSE z \in {} : TRUE
    IN  Norm((x.n \div g1) * (y.n \div g2), (x.d \div g2) * (y.d \div g1), t)

Inv(y) == Norm(y.d, y.n, 0)

Div(x, y) == Mul(x, Inv(y))

\* x < y; -Infinity is below every number.
Less(x, y) ==
    IF x = NegInf THEN y # NegInf
    ELSE IF y = NegInf THEN FALSE
    ELSE LET g == GCD(x.d, y.d)
             a == x.n * (y.d \div g)
             b == y.n * (x.d \div g)
         IN  a < b \/ (a = b /\ x.t < y.t)

LessEq(x, y) == ~Less(y, x)

\* Math.abs
Abs(x) == IF Less(x, Zero) THEN Neg(x) ELSE x

\* Math.min
Min(x, y) == IF Less(y, x) THEN y ELSE x

Max(x, y) == IF Less(x, y) THEN y ELSE x

\* Math.pow(x, k) for an integer k >= 0
RECURSIVE Pow(_, _)
Pow(x, k) == IF k = 0 THEN One ELSE Mul(x, Pow(x, k - 1))

\* Math.floor, as an integer
Floor(x) == x.n \div x.d

----------------------------------------------------------------------------
\* Map<number, number>: the entries [k, v] in insertion order.

MapHas(m, key) == \E i \in 1..Len(m) : m[i].k = key

MapGet(m, key) == m[CHOOSE i \in 1..Len(m) : m[i].k = key].v

\* Map.prototype.set: an existing key keeps its place and takes the new value.
MapSet(m, key, val) ==
    IF MapHas(m, key)
    THEN [i \in 1..Len(m) |-> IF m[i].k = key THEN [k |-> key, v |-> val] ELSE m[i]]
    ELSE Append(m, [k |-> key, v |-> val])

\* Array.from(m.keys())
MapKeys(m) == [i \in 1..Len(m) |-> m[i].k]

\* Array.prototype.sort((a, b) => a - b)
RECURSIVE Insert(_, _)
Insert(s, x) ==
    IF s = <<>> THEN <<x>>
    ELSE IF Less(x, Head(s)) THEN <<x>> \o s
    ELSE <<Head(s)>> \o Insert(Tail(s), x)

\* the keys left in insertion order
SortNone(s) == s

RECURSIVE SortAsc(_)
SortAsc(s) == IF s = <<>> THEN <<>> ELSE Insert(SortAsc(Tail(s)), Head(s))

----------------------------------------------------------------------------
\* binomialCoefficient(n, k)

RECURSIVE BinomLoop(_, _, _, _)
BinomLoop(n, k, i, result) ==
    IF i < k
    THEN BinomLoop(n, k, i + 1, Div(Mul(result, Num(n - i)), Num(i + 1)))
    ELSE result

\* binomialCoefficient with the division by (i + 1) dropped
RECURSIVE FallingLoop(_, _, _, _)
FallingLoop(n, k, i, result) ==
    IF i < k THEN FallingLoop(n, k, i + 1, Mul(result, Num(n - i))) ELSE result

binomialCoefficientNoDivide(n, k) ==
    IF k < 0 \/ k > n THEN Zero
    ELSE IF k = 0 \/ k = n THEN One
    ELSE FallingLoop(n, k, 0, One)

binomialCoefficient(n, k) ==
    IF k < 0 \/ k > n THEN Zero
    ELSE IF k = 0 \/ k = n THEN One
    ELSE BinomLoop(n, k, 0, One)

\* 1e-10, the width of the "r is 1" band of calculateSDistribution
NearOne == [n |-> 0, d |-> 1, t |-> 10]

\* calculateSDistribution, the general case: for (let k = 0; k <= N; k++)
RECURSIVE DistLoop(_, _, _, _, _)
DistLoop(N, p, r, k, distribution) ==
    IF k <= N
    THEN LET value == Add(Num(N), Mul(Num(k), Sub(r, One)))
             probability == Mul(Mul(binomialCoefficient(N, k), Pow(p, k)),
                                Pow(Sub(One, p), N - k))
         IN  DistLoop(N, p, r, k + 1, MapSet(distribution, value, probability))
    ELSE distribution

\* calculateSDistribution without the p === 0 case
calculateSDistributionNoZeroCase(N, p, r) ==
    IF Less(Abs(Sub(r, One)), NearOne) THEN MapSet(<<>>, Num(N), One)
    ELSE IF p = One THEN MapSet(<<>>, Mul(Num(N), r), One)
    ELSE DistLoop(N, p, r, 0, <<>>)

calculateSDistribution(N, p, r) ==
    IF Less(Abs(Sub(r, One)), NearOne) THEN MapSet(<<>>, Num(N), One)
    ELSE IF p = Zero THEN MapSet(<<>>, Num(N), One)
    ELSE IF p = One THEN MapSet(<<>>, Mul(Num(N), r), One)
    ELSE DistLoop(N, p, r, 0, <<>>)

----------------------------------------------------------------------------
\* calculateMaxExpectation(sDistribution, A)

\* the CDF loop: cdf.set(value, cumulative += sDistribution.get(value))
RECURSIVE CdfLoop(_, _, _, _, _)
CdfLoop(sDistribution, sortedValues, i, cumulative, cdf) ==
    IF i <= Len(sortedValues)
    THEN LET c == Add(cumulative, MapGet(sDistribution, sortedValues[i]))
         IN  CdfLoop(sDistribution, sortedValues, i + 1, c,
                     MapSet(cdf, sortedValues[i], c))
    ELSE cdf

\* MaxLoop with P(max = value) taken as (cdf - prevCdf)^A
RECURSIVE MaxLoopMassPower(_, _, _, _, _, _)
MaxLoopMassPower(cdf, sortedValues, A, i, expectation, prevCdf) ==
    IF i <= Len(sortedValues)
    THEN LET value == sortedValues[i]
             currentCdf == MapGet(cdf, value)
             probMaxEqualsValue == Pow(Sub(currentCdf, prevCdf), A)
         IN  MaxLoopMassPower(cdf, sortedValues, A, i + 1,
                     Add(expectation, Mul(value, probMaxEqualsValue)), currentCdf)
    ELSE expectation

\* the expectation loop: expectation += value * (cdf^A - prevCdf^A)
RECURSIVE MaxLoop(_, _, _, _, _, _)
MaxLoop(cdf, sortedValues, A, i, expectation, prevCdf) ==
    IF i <= Len(sortedValues)
    THEN LET value == sortedValues[i]
             currentCdf == MapGet(cdf, value)
             probMaxEqualsValue == Sub(Pow(currentCdf, A), Pow(prevCdf, A))
         IN  MaxLoop(cdf, sortedValues, A, i + 1,
                     Add(expectation, Mul(value, probMaxEqualsValue)), currentCdf)
    ELSE expectation

\* calculateMaxExpectation without the single-value return
calculateMaxExpectationNoShortcut(sDistribution, A) ==
    LET sortedValues == SortAsc(MapKeys(sDistribution))
    IN  MaxLoop(CdfLoop(sDistribution, sortedValues, 1, Zero, <<>>),
                sortedValues, A, 1, Zero, Zero)

calculateMaxExpectation(sDistribution, A) ==
    LET sortedValues == SortAsc(MapKeys(sDistribution))
    IN  IF Len(sortedValues) = 1 THEN sortedValues[1]
        ELSE MaxLoop(CdfLoop(sDistribution, sortedValues, 1, Zero, <<>>),
                     sortedValues, A, 1, Zero, Zero)

----------------------------------------------------------------------------
\* calculateR(p, C)
calculateR(p, C) == Sub(C, Mul(Num(2), p))

\* calculateExpectationForP with the floor test written r <= 1
calculateExpectationForPStrict(p, N, A, C) ==
    LET r == calculateR(p, C)
    IN  IF LessEq(r, One) THEN NegInf
        ELSE calculateMaxExpectation(calculateSDistribution(N, p, r), A)

\* calculateExpectationForP(p, N, A, C)
calculateExpectationForP(p, N, A, C) ==
    LET r == calculateR(p, C)
    IN  IF Less(r, One) THEN NegInf
        ELSE calculateMaxExpectation(calculateSDistribution(N, p, r), A)

----------------------------------------------------------------------------
\* Bounds of the model and the inputs the operations are called with.

MaxN == 3
MaxA == 3
GridDen == 4
MaxCTwice == 7
MaxTolInv == 8
MaxStepDen == 4
MaxEntries == 3

NValues == 1..MaxN

AValues == 1..MaxA

\* p on a grid of [0, 1]
PValues == {Rat(i, GridDen) : i \in 0..GridDen}

\* the constraint constant C = 2p + r, from -1/2 up
CValues == {Rat(c, 2) : c \in (-1)..MaxCTwice}

\* multipliers r > 0: halves, and values within a few 1e-11 of 1
RValues == {Rat(j, 2) : j \in 1..6}
           \cup {[n |-> 1, d |-> 1, t |-> t] : t \in {-10, -1, 1, 9, 10}}

TolValues == {Rat(1, k) : k \in 1..MaxTolInv}

StepValues == {Rat(a, b) : a \in 1..2, b \in 1..MaxStepDen}

\* Distributions handed to calculateMaxExpectation: up to MaxEntries distinct
\* values in any insertion order, masses on a grid and summing to 1.
ValueSet == {Num(1), Rat(3, 2), Num(2), Num(4)}

MassValues == {Rat(i, GridDen) : i \in 0..GridDen}

RECURSIVE SumMasses(_)
SumMasses(m) == IF m = <<>> THEN Zero ELSE Add(Head(m).v, SumMasses(Tail(m)))

DistValues ==
    UNION {
      {m \in [1..len -> [k : ValueSet, v : MassValues]] :
          /\ \A i, j \in 1..len : i # j => m[i].k # m[j].k
          /\ SumMasses(m) = One}
      : len \in 1..MaxEntries}

\* The exact arithmetic stays within TLC's integers when the denominators that
\* an evaluation of the objective at p builds, about den(p)^(N*A+1), do.
RECURSIVE CapPow(_, _, _)
CapPow(b, e, cap) ==
    IF e = 0 THEN 1
    ELSE LET r == CapPow(b, e - 1, cap)
         IN  IF r > cap \div b THEN cap + 1 ELSE r * b

IntCap == 2^26

Fits(den, N, A) == CapPow(den, N * A + 1, IntCap) <= IntCap

\* The denominator of the last p of a search from width w: each iteration
\* divides by 3, the final midpoint by 2.
RECURSIVE SearchDen(_, _, _)
SearchDen(w, tol, den) ==
    IF Less(tol, w) THEN SearchDen(Div(Mul(Num(2), w), Num(3)), tol, 3 * den)
    ELSE 2 * den

----------------------------------------------------------------------------
\* State.  pc: where the current call stands; op, args: the call; left, right:
\* the interval of findOptimalP; idx, results: the loop index and the array of
\* sensitivityAnalysis; ret: the returned value; evals: the p of every
\* calculateExpectationForP call made by the current call, in order.

NoArgs == [N |-> 0, A |-> 0, C |-> Zero, tol |-> Zero, step |-> Zero,
           p |-> Zero, r |-> Zero, dist |-> <<>>]

NoRet == [dist |-> <<>>, val |-> Zero,
          opt |-> [optimalP |-> Zero, optimalR |-> Zero, maxExpectation |-> Zero]]

Init ==
    /\ pc = "idle"
    /\ op = "none"
    /\ args = NoArgs
    /\ left = Zero
    /\ right = Zero
    /\ idx = 0
    /\ results = <<>>
    /\ ret = NoRet
    /\ evals = <<>>

\* calculateSDistribution(N, p, r)
CallBuild ==
    /\ pc = "idle"
    /\ \E N \in NValues, p \in PValues, r \in RValues :
          /\ args' = [NoArgs EXCEPT !.N = N, !.p = p, !.r = r]
          /\ ret' = [NoRet EXCEPT !.dist = calculateSDistribution(N, p, r)]
    /\ op' = "build"
    /\ pc' = "done"
    /\ UNCHANGED <<left, right, idx, results, evals>>

\* calculateMaxExpectation(sDistribution, A), also with the A = 0 that no
\* caller passes
CallExpectedMax ==
    /\ pc = "idle"
    /\ \E dist \in DistValues, A \in 0..MaxA :
          /\ args' = [NoArgs EXCEPT !.dist = dist, !.A = A]
          /\ ret' = [NoRet EXCEPT !.val = calculateMaxExpectation(dist, A)]
    /\ op' = "expectedMax"
    /\ pc' = "done"
    /\ UNCHANGED <<left, right, idx, results, evals>>

\* calculateExpectationForP(p, N, A, C)
CallExpectationAt ==
    /\ pc = "idle"
    /\ \E p \in PValues, N \in NValues, A \in AValues, C \in CValues :
          /\ Fits(LCM(p.d, C.d), N, A)
          /\ args' = [NoArgs EXCEPT !.p = p, !.N = N, !.A = A, !.C = C]
          /\ ret' = [NoRet EXCEPT !.val = calculateExpectationForP(p, N, A, C)]
          /\ evals' = <<p>>
    /\ op' = "expectationAt"
    /\ pc' = "done"
    /\ UNCHANGED <<left, right, idx, results>>

----------------------------------------------------------------------------
\* findOptimalP(N, A, C, tolerance)

\* Fallback with the expectation left at 0
FallbackNoTrials(N) == [optimalP |-> Zero, optimalR |-> One, maxExpectation |-> Zero]

\* the C < 1 return value
Fallback(N) == [optimalP |-> Zero, optimalR |-> One, maxExpectation |-> Num(N)]

\* FeasibleMax from p <= C / 2, the floor r >= 1 forgotten
FeasibleMaxNoFloor(C) == Min(One, Div(C, Num(2)))

\* FeasibleMax without the cap at 1
FeasibleMaxUnclamped(C) == Div(Sub(C, One), Num(2))

\* Math.min(1, (C - 1) / 2): the upper end of the feasible interval of p
FeasibleMax(C) == Min(One, Div(Sub(C, One), Num(2)))

\* SearchNarrow with the comparison turned round
SearchNarrowReversed(l, r, N, A, C) ==
    LET mid1 == Add(l, Div(Sub(r, l), Num(3)))
        mid2 == Sub(r, Div(Sub(r, l), Num(3)))
        expectation1 == calculateExpectationForP(mid1, N, A, C)
        expectation2 == calculateExpectationForP(mid2, N, A, C)
    IN  IF Less(expectation2, expectation1) THEN <<mid1, r>> ELSE <<l, mid2>>

\* SearchNarrow with a tie moving the left end
SearchNarrowTieLeft(l, r, N, A, C) ==
    LET mid1 == Add(l, Div(Sub(r, l), Num(3)))
        mid2 == Sub(r, Div(Sub(r, l), Num(3)))
        expectation1 == calculateExpectationForP(mid1, N, A, C)
        expectation2 == calculateExpectationForP(mid2, N, A, C)
    IN  IF LessEq(expectation1, expectation2) THEN <<mid1, r>> ELSE <<l, mid2>>

\* one iteration of the ternary search: the next <<left, right>>
SearchNarrow(l, r, N, A, C) ==
    LET mid1 == Add(l, Div(Sub(r, l), Num(3)))
        mid2 == Sub(r, Div(Sub(r, l), Num(3)))
        expectation1 == calculateExpectationForP(mid1, N, A, C)
        expectation2 == calculateExpectationForP(mid2, N, A, C)
    IN  IF Less(expectation1, expectation2) THEN <<mid1, r>> ELSE <<l, mid2>>

\* the p the iteration probes, in the order of the calls
SearchProbes(l, r) ==
    <<Add(l, Div(Sub(r, l), Num(3))), Sub(r, Div(Sub(r, l), Num(3)))>>

\* SearchResult with optimalR taken at the left end instead of at optimalP
SearchResultStaleR(l, r, N, A, C) ==
    LET optimalP == Div(Add(l, r), Num(2))
        maxExpectation == calculateExpectationForP(optimalP, N, A, C)
        optimalR == calculateR(l, C)
    IN  [optimalP |-> optimalP, optimalR |-> optimalR,
         maxExpectation |-> maxExpectation]

\* SearchResult with the left end returned instead of the midpoint
SearchResultLeftEnd(l, r, N, A, C) ==
    LET optimalP == l
        maxExpectation == calculateExpectationForP(optimalP, N, A, C)
        optimalR == calculateR(optimalP, C)
    IN  [optimalP |-> optimalP, optimalR |-> optimalR,
         maxExpectation |-> maxExpectation]

\* the result once the interval is narrow enough
SearchResult(l, r, N, A, C) ==
    LET optimalP == Div(Add(l, r), Num(2))
        maxExpectation == calculateExpectationForP(optimalP, N, A, C)
        optimalR == calculateR(optimalP, C)
    IN  [optimalP |-> optimalP, optimalR |-> optimalR,
         maxExpectation |-> maxExpectation]

\* the while loop run to its exit: the last <<left, right>>
RECURSIVE SearchLoop(_, _, _, _, _, _)
SearchLoop(l, r, N, A, C, tolerance) ==
    IF Less(tolerance, Sub(r, l))
    THEN LET next == SearchNarrow(l, r, N, A, C)
         IN  SearchLoop(next[1], next[2], N, A, C, tolerance)
    ELSE <<l, r>>

\* findOptimalP(N, A, C, tolerance) as one function
findOptimalP(N, A, C, tolerance) ==
    IF Less(C, One) THEN Fallback(N)
    ELSE LET last == SearchLoop(Zero, FeasibleMax(C), N, A, C, tolerance)
         IN  SearchResult(last[1], last[2], N, A, C)

\* the searches whose arithmetic stays within TLC's integers
SearchFits(N, A, C, tolerance) ==
    Fits(SearchDen(FeasibleMax(C), tolerance, FeasibleMax(C).d), N, A)

\* The call, up to the loop.  A tolerance <= 0 is drawn only with C < 1: with
\* C >= 1 the loop would not end.
CallOptimize ==
    /\ pc = "idle"
    /\ \E N \in NValues, A \in AValues, C \in CValues,
          tolerance \in TolValues \cup {Zero, Num(-1)} :
          /\ args' = [NoArgs EXCEPT !.N = N, !.A = A, !.C = C, !.tol = tolerance]
          /\ IF Less(C, One)
             THEN /\ ret' = [NoRet EXCEPT !.opt = Fallback(N)]
                  /\ pc' = "done"
                  /\ UNCHANGED <<left, right>>
             ELSE /\ Less(Zero, tolerance)
                  /\ Fits(SearchDen(FeasibleMax(C), tolerance, FeasibleMax(C).d), N, A)
                  /\ left' = Zero
                  /\ right' = FeasibleMax(C)
                  /\ pc' = "search"
                  /\ ret' = NoRet
    /\ op' = "optimize"
    /\ UNCHANGED <<idx, results, evals>>

\* while (right - left > tolerance) { ... }
SearchStep ==
    /\ pc = "search"
    /\ Less(args.tol, Sub(right, left))
    /\ LET next == SearchNarrow(left, right, args.N, args.A, args.C)
       IN  /\ left' = next[1]
           /\ right' = next[2]
    /\ evals' = evals \o SearchProbes(left, right)
    /\ UNCHANGED <<pc, op, args, idx, results, ret>>

\* the loop's exit and the return
SearchExit ==
    /\ pc = "search"
    /\ ~Less(args.tol, Sub(right, left))
    /\ ret' = [NoRet EXCEPT !.opt = SearchResult(left, right, args.N, args.A, args.C)]
    /\ evals' = Append(evals, Div(Add(left, right), Num(2)))
    /\ pc' = "done"
    /\ UNCHANGED <<op, args, left, right, idx, results>>

----------------------------------------------------------------------------
\* sensitivityAnalysis(N, A, C, step)

\* Math.floor(maxP / step)
NumSteps(C, step) == Floor(Div(FeasibleMax(C), step))

\* p of grid index i: i * step, and maxP if that is above maxP
GridP(i, C, step) ==
    LET p == Mul(Num(i), step)
    IN  IF Less(FeasibleMax(C), p) THEN FeasibleMax(C) ELSE p

\* results.push({p, r, expectation}) unless the expectation is -Infinity
PushPoint(res, p, N, A, C) ==
    LET r == calculateR(p, C)
        expectation == calculateExpectationForP(p, N, A, C)
    IN  IF expectation # NegInf
        THEN Append(res, [p |-> p, r |-> r, expectation |-> expectation])
        ELSE res

\* PushLast with the test written lastP <= maxP
PushLastInclusive(res, N, A, C, step) ==
    LET lastP == Mul(Num(NumSteps(C, step)), step)
    IN  IF LessEq(lastP, FeasibleMax(C))
        THEN PushPoint(res, FeasibleMax(C), N, A, C)
        ELSE res

\* the point added after the loop when the grid stops short of maxP
PushLast(res, N, A, C, step) ==
    LET lastP == Mul(Num(NumSteps(C, step)), step)
    IN  IF Less(lastP, FeasibleMax(C))
        THEN PushPoint(res, FeasibleMax(C), N, A, C)
        ELSE res

\* The call, up to the loop.  A step <= 0 is drawn only with C < 1: with
\* C >= 1 the loop would not end.
CallSample ==
    /\ pc = "idle"
    /\ \E N \in NValues, A \in AValues, C \in CValues,
          step \in StepValues \cup {Zero, Num(-1)} :
          /\ args' = [NoArgs EXCEPT !.N = N, !.A = A, !.C = C, !.step = step]
          /\ IF Less(C, One)
             THEN /\ results' = <<[p |-> Zero, r |-> One, expectation |-> Num(N)]>>
                  /\ pc' = "done"
             ELSE /\ Less(Zero, step)
                  /\ Fits(LCM(FeasibleMax(C).d, step.d), N, A)
                  /\ results' = <<>>
                  /\ pc' = "sample"
    /\ op' = "sample"
    /\ idx' = 0
    /\ UNCHANGED <<left, right, ret, evals>>

\* for (let i = 0; i <= numSteps; i++) { ... }
SampleStep ==
    /\ pc = "sample"
    /\ idx <= NumSteps(args.C, args.step)
    /\ results' = PushPoint(results, GridP(idx, args.C, args.step),
                            args.N, args.A, args.C)
    /\ evals' = Append(evals, GridP(idx, args.C, args.step))
    /\ idx' = idx + 1
    /\ UNCHANGED <<pc, op, args, left, right, ret>>

\* after the loop: the point at maxP, and the return
SampleTail ==
    /\ pc = "sample"
    /\ idx > NumSteps(args.C, args.step)
    /\ results' = PushLast(results, args.N, args.A, args.C, args.step)
    /\ evals' = IF Less(Mul(Num(NumSteps(args.C, args.step)), args.step),
                        FeasibleMax(args.C))
                THEN Append(evals, FeasibleMax(args.C))
                ELSE evals
    /\ pc' = "done"
    /\ UNCHANGED <<op, args, left, right, idx, ret>>

\* The call has returned; the next one starts from scratch.
Return ==
    /\ pc = "done"
    /\ pc' = "idle"
    /\ op' = "none"
    /\ args' = NoArgs
    /\ left' = Zero
    /\ right' = Zero
    /\ idx' = 0
    /\ results' = <<>>
    /\ ret' = NoRet
    /\ evals' = <<>>

Next ==
    \/ CallBuild
    \/ CallExpectedMax
    \/ CallExpectationAt
    \/ CallOptimize
    \/ SearchStep
    \/ SearchExit
    \/ CallSample
    \/ SampleStep
    \/ SampleTail
    \/ Return

Spec == Init /\ [][Next]_vars

\* A step taken from inside the loop of findOptimalP: it evaluates the
\* objective (SearchStep twice, SearchExit once) or ends the call.  It is
\* enabled exactly when pc = "search", and every SearchStep and SearchExit is
\* such a step.
SearchRuns ==
    /\ pc = "search"
    /\ \/ /\ pc' = "done"
          /\ UNCHANGED <<op, args, left, right, idx, results, ret, evals>>
       \/ Len(evals') > Len(evals)

\* The loop of findOptimalP is synchronous code that nothing suspends: while
\* the call is inside it, its next step is taken.
LiveSpec == Spec /\ WF_vars(SearchRuns)

----------------------------------------------------------------------------
\* Properties of findOptimalP and calculateExpectationForP.

OptimizeDone == op = "optimize" /\ pc = "done"

\* C1: every result of findOptimalP called with tolerance > 0 has
\* optimalR >= 1, and when C >= 1 its optimalP lies in the feasible interval
\* [0, min(1, (C - 1) / 2)].
C1_FeasibleResult ==
    (OptimizeDone /\ Less(Zero, args.tol)) =>
        /\ LessEq(One, ret.opt.optimalR)
        /\ LessEq(One, args.C) =>
              /\ LessEq(Zero, ret.opt.optimalP)
              /\ LessEq(ret.opt.optimalP, One)
              /\ LessEq(Add(ret.opt.optimalP, ret.opt.optimalP), Sub(args.C, One))

\* a search for C = 5/2 (feasible interval [0, 3/4]) that iterated and returned
C1_Witness ==
    /\ OptimizeDone
    /\ args.C = Rat(5, 2)
    /\ Len(evals) >= 5
    /\ Less(Zero, ret.opt.optimalP)

\* C2 as claimed: for every C, C < 1 included, the returned pair satisfies
\* optimalR = C - 2 * optimalP.
C2_RoundTripEveryC ==
    OptimizeDone =>
        ret.opt.optimalR = Sub(args.C, Add(ret.opt.optimalP, ret.opt.optimalP))

\* C2 amended: for C >= 1 the returned pair satisfies
\* optimalR = C - 2 * optimalP; for C < 1 the returned pair is
\* (optimalP, optimalR) = (0, 1), for which C - 2 * optimalP = C < 1 = optimalR.
C2_RoundTrip ==
    OptimizeDone =>
        LET implied == Sub(args.C, Add(ret.opt.optimalP, ret.opt.optimalP))
        IN  IF LessEq(One, args.C)
            THEN ret.opt.optimalR = implied
            ELSE /\ ret.opt.optimalP = Zero
                 /\ ret.opt.optimalR = One
                 /\ Less(implied, ret.opt.optimalR)

\* a search with C >= 1 that returned a p > 0, so that optimalR # C
C2_Witness ==
    /\ OptimizeDone
    /\ LessEq(One, args.C)
    /\ Less(Zero, ret.opt.optimalP)
    /\ Less(ret.opt.optimalR, args.C)

\* C3: with C < 1 findOptimalP returns exactly {0, 1, N} and
\* sensitivityAnalysis exactly the one point {0, 1, N}, for every A and every
\* tolerance or step, without entering a loop and without a call of
\* calculateExpectationForP.
C3_FallbackBelowOne ==
    (op \in {"optimize", "sample"} /\ Less(args.C, One)) =>
        /\ pc = "done"
        /\ evals = <<>>
        /\ op = "optimize" =>
              ret.opt = [optimalP |-> Zero, optimalR |-> One,
                         maxExpectation |-> Num(args.N)]
        /\ op = "sample" =>
              results = <<[p |-> Zero, r |-> One, expectation |-> Num(args.N)]>>

\* findOptimalP(3, 2, 1/2, 0): the spec's C = 0.5, with a tolerance that would
\* never end a search
C3_Witness ==
    /\ OptimizeDone
    /\ args.C = Rat(1, 2)
    /\ args.N = 3
    /\ args.A = 2
    /\ args.tol = Zero
    /\ ret.opt.maxExpectation = Num(3)

\* C4: calculateExpectationForP(p, N, A, C) is -Infinity exactly when
\* C - 2p < 1; otherwise (C - 2p = 1 included) it is the finite value
\* calculateMaxExpectation(calculateSDistribution(N, p, C - 2p), A).
C4_SentinelIffBelowFloor ==
    (op = "expectationAt" /\ pc = "done") =>
        LET r == Sub(args.C, Add(args.p, args.p))
        IN  /\ ret.val = NegInf <=> Less(r, One)
            /\ ~Less(r, One) =>
                  /\ ret.val.d > 0
                  /\ ret.val = calculateMaxExpectation(
                                   calculateSDistribution(args.N, args.p, r), args.A)

\* an evaluation exactly on the floor, C - 2p = 1 with p > 0
C4_Witness ==
    /\ op = "expectationAt"
    /\ pc = "done"
    /\ Less(Zero, args.p)
    /\ Sub(args.C, Add(args.p, args.p)) = One
    /\ ret.val = Num(args.N)

----------------------------------------------------------------------------
\* Properties of calculateSDistribution.

BuildDone == op = "build" /\ pc = "done"

\* C(n, k) by Pascal's rule, and integer powers
RECURSIVE Choose(_, _)
Choose(n, k) ==
    IF k < 0 \/ k > n THEN 0
    ELSE IF k = 0 \/ k = n THEN 1
    ELSE Choose(n - 1, k - 1) + Choose(n - 1, k)

RECURSIVE IntPow(_, _)
IntPow(b, e) == IF e = 0 THEN 1 ELSE b * IntPow(b, e - 1)

\* C(N, k) * p^k * (1 - p)^(N - k) for p = n/d
BinomialMass(N, k, p) ==
    Rat(Choose(N, k) * IntPow(p.n, k) * IntPow(p.d - p.n, N - k), IntPow(p.d, N))

\* dist is the law of N + k(r - 1), k binomial(N, p): N + 1 entries, masses
\* summing to 1
IsBinomial(dist, N, p, r) ==
    /\ Len(dist) = N + 1
    /\ \A k \in 0..N :
          LET value == Add(Num(N), Mul(Num(k), Sub(r, One)))
          IN  /\ MapHas(dist, value)
              /\ MapGet(dist, value) = BinomialMass(N, k, p)
    /\ SumMasses(dist) = One

GeneralInput == /\ Less(Zero, args.r)
                /\ Less(Zero, args.p)
                /\ Less(args.p, One)

\* C5 as claimed: for r > 0, r # 1 and 0 < p < 1 the distribution has the
\* N + 1 entries N + k(r - 1) with the binomial masses, which sum to 1.
C5_BinomialUnlessROne ==
    (BuildDone /\ GeneralInput /\ args.r # One) =>
        IsBinomial(ret.dist, args.N, args.p, args.r)

\* C5 amended: for r > 0, |r - 1| >= 1e-10 and 0 < p < 1 the distribution has
\* the N + 1 entries N + k(r - 1) with the binomial masses, which sum to 1.
C5_BinomialOutsideBand ==
    (BuildDone /\ GeneralInput /\ ~Less(Abs(Sub(args.r, One)), NearOne)) =>
        IsBinomial(ret.dist, args.N, args.p, args.r)

\* calculateSDistribution(2, 1/2, 3) = {2: 1/4, 4: 1/2, 6: 1/4}
C5_Witness ==
    /\ BuildDone
    /\ args.N = 2
    /\ args.p = Rat(1, 2)
    /\ args.r = Num(3)
    /\ ret.dist = <<[k |-> Num(2), v |-> Rat(1, 4)],
                    [k |-> Num(4), v |-> Rat(1, 2)],
                    [k |-> Num(6), v |-> Rat(1, 4)]>>

Single(value) == <<[k |-> value, v |-> One]>>

\* C6 as claimed: p = 0 gives {N: 1} for every r, r = 1 gives {N: 1} for
\* every p, and p = 1 gives {N * r: 1} for every r.
C6_DegenerateEveryR ==
    BuildDone =>
        /\ args.p = Zero => ret.dist = Single(Num(args.N))
        /\ args.r = One => ret.dist = Single(Num(args.N))
        /\ args.p = One => ret.dist = Single(Mul(Num(args.N), args.r))

\* C6 amended: p = 0 gives {N: 1} for every r, r = 1 gives {N: 1} for every
\* p, and p = 1 gives {N * r: 1} for every r with |r - 1| >= 1e-10 and {N: 1}
\* for every r with |r - 1| < 1e-10.
C6_Degenerate ==
    BuildDone =>
        /\ args.p = Zero => ret.dist = Single(Num(args.N))
        /\ args.r = One => ret.dist = Single(Num(args.N))
        /\ args.p = One =>
              ret.dist = IF Less(Abs(Sub(args.r, One)), NearOne)
                         THEN Single(Num(args.N))
                         ELSE Single(Mul(Num(args.N), args.r))

\* calculateSDistribution(3, 1, 3/2) = {9/2: 1}
C6_Witness ==
    /\ BuildDone
    /\ args.N = 3
    /\ args.p = One
    /\ args.r = Rat(3, 2)
    /\ ret.dist = Single(Rat(9, 2))

----------------------------------------------------------------------------
\* Properties of calculateMaxExpectation.

ExpectedMaxDone == op = "expectedMax" /\ pc = "done"

\* The expectation of the maximum of cur and a further independent draws,
\* summed over the outcomes of each draw.
RECURSIVE DrawMax(_, _, _)
RECURSIVE DrawSum(_, _, _, _)
DrawMax(dist, a, cur) == IF a = 0 THEN cur ELSE DrawSum(dist, a, cur, 1)

DrawSum(dist, a, cur, j) ==
    IF j > Len(dist) THEN Zero
    ELSE Add(Mul(dist[j].v, DrawMax(dist, a - 1, Max(cur, dist[j].k))),
             DrawSum(dist, a, cur, j + 1))

\* C7: for a distribution over distinct values and A >= 1 the result is the
\* expectation of the maximum of A independent draws, whatever the order in
\* which the entries were inserted.
C7_ExpectationOfMaximum ==
    (ExpectedMaxDone /\ args.A >= 1) =>
        ret.val = DrawMax(args.dist, args.A, NegInf)

\* three values inserted in descending order, all with positive mass, A = 3
C7_Witness ==
    /\ ExpectedMaxDone
    /\ args.A = 3
    /\ Len(args.dist) = 3
    /\ Less(args.dist[2].k, args.dist[1].k)
    /\ Less(args.dist[3].k, args.dist[2].k)
    /\ \A i \in 1..3 : Less(Zero, args.dist[i].v)

\* C8: on a distribution with exactly one value the result is that value, for
\* every A.
C8_SingleValue ==
    (ExpectedMaxDone /\ Len(args.dist) = 1) => ret.val = args.dist[1].k

\* one value, and A = 0, for which the general formula would give 0
C8_Witness ==
    /\ ExpectedMaxDone
    /\ Len(args.dist) = 1
    /\ args.A = 0
    /\ ret.val = Num(4)

\* C9: for a distribution with at least two values and 1 <= A1 <= A2,
\* expectedMax(distribution, A1) <= expectedMax(distribution, A2).
C9_MonotoneInA ==
    (ExpectedMaxDone /\ Len(args.dist) >= 2 /\ args.A >= 1) =>
        \A A2 \in args.A..(MaxA + 1) :
            LessEq(ret.val, calculateMaxExpectation(args.dist, A2))

\* two values with positive mass, where one more draw strictly raises the result
C9_Witness ==
    /\ ExpectedMaxDone
    /\ Len(args.dist) = 2
    /\ args.A = 2
    /\ Less(ret.val, calculateMaxExpectation(args.dist, 3))

----------------------------------------------------------------------------
\* Properties of sensitivityAnalysis.

SampleDone == op = "sample" /\ pc = "done"

\* C10: for C >= 1 and step > 0, with maxP = min(1, (C - 1) / 2) and
\* numSteps = floor(maxP / step), the returned points are p = i * step for
\* i = 0..numSteps, in strictly ascending order, followed by one point at maxP
\* exactly when numSteps * step < maxP; the first p is 0, the last is maxP, and
\* every point has r = C - 2p >= 1.
C10_GridThenMaxP ==
    (SampleDone /\ LessEq(One, args.C) /\ Less(Zero, args.step)) =>
        LET maxP == IF Less(args.C, Num(3))
                    THEN Div(Sub(args.C, One), Num(2))
                    ELSE One
            numSteps == CHOOSE n \in 0..MaxStepDen :
                           /\ LessEq(Mul(Num(n), args.step), maxP)
                           /\ Less(maxP, Mul(Num(n + 1), args.step))
            grid == [i \in 1..(numSteps + 1) |-> Mul(Num(i - 1), args.step)]
            expected == IF Less(Mul(Num(numSteps), args.step), maxP)
                        THEN Append(grid, maxP)
                        ELSE grid
        IN  /\ Len(results) = Len(expected)
            /\ \A i \in 1..Len(results) :
                  /\ results[i].p = expected[i]
                  /\ results[i].r = Sub(args.C, Add(results[i].p, results[i].p))
                  /\ LessEq(One, results[i].r)
            /\ \A i \in 1..(Len(results) - 1) : Less(results[i].p, results[i + 1].p)
            /\ results[1].p = Zero
            /\ results[Len(results)].p = maxP

\* sensitivityAnalysis(N, A, 5/2, 1/2): the grid 0, 1/2 stops short of
\* maxP = 3/4, which is added
C10_Witness ==
    /\ SampleDone
    /\ args.C = Rat(5, 2)
    /\ args.step = Rat(1, 2)
    /\ Len(results) = 3
    /\ results[2].p = Rat(1, 2)
    /\ results[3].p = Rat(3, 4)

----------------------------------------------------------------------------
\* Properties of the ternary search of findOptimalP.

\* the tolerances below that of the current call
SmallerTolerances ==
    {t2 \in TolValues : /\ Less(t2, args.tol)
                        /\ SearchFits(args.N, args.A, args.C, t2)}

\* C11 as claimed: for t1 > t2 > 0 the maxExpectation returned with t2 is at
\* least the maxExpectation returned with t1.
C11_MonotoneInTolerance ==
    (OptimizeDone /\ LessEq(One, args.C)) =>
        \A t2 \in SmallerTolerances :
            LessEq(ret.opt.maxExpectation,
                   findOptimalP(args.N, args.A, args.C, t2).maxExpectation)

\* C11 amended: for t1 > t2 > 0 the search with t2 ends on an interval inside
\* the one the search with t1 ends on, and the two optimalP differ by at most
\* t1 / 2 (the maxExpectation with t2 may be the lower one).
C11_NestedIntervals ==
    (OptimizeDone /\ LessEq(One, args.C)) =>
        \A t2 \in SmallerTolerances :
            LET last == SearchLoop(Zero, FeasibleMax(args.C),
                                   args.N, args.A, args.C, t2)
                p2 == findOptimalP(args.N, args.A, args.C, t2).optimalP
            IN  /\ LessEq(left, last[1])
                /\ LessEq(last[2], right)
                /\ LessEq(Add(Abs(Sub(p2, ret.opt.optimalP)),
                              Abs(Sub(p2, ret.opt.optimalP))), args.tol)

\* findOptimalP(1, 1, 2, 1) returns 9/8 and findOptimalP(1, 1, 2, 1/3) less
C11_Witness ==
    /\ OptimizeDone
    /\ args.N = 1
    /\ args.A = 1
    /\ args.C = Num(2)
    /\ args.tol = One
    /\ ret.opt.maxExpectation = Rat(9, 8)
    /\ Less(findOptimalP(1, 1, Num(2), Rat(1, 3)).maxExpectation,
            ret.opt.maxExpectation)

\* one iteration of the loop, as the claim of C12 describes it
IterationRule ==
    LET w == Sub(right, left)
        mid1 == Add(left, Div(w, Num(3)))
        mid2 == Sub(right, Div(w, Num(3)))
        e1 == calculateExpectationForP(mid1, args.N, args.A, args.C)
        e2 == calculateExpectationForP(mid2, args.N, args.A, args.C)
    IN  /\ Less(args.tol, w)
        /\ IF Less(e1, e2)
           THEN left' = mid1 /\ right' = right
           ELSE left' = left /\ right' = mid2
        /\ (left' # left) # (right' # right)
        /\ Sub(right', left') = Div(Mul(Num(2), w), Num(3))

SingleDrawObjective(p, N, C) ==
    Mul(Num(N), Add(One, Mul(p, Sub(Sub(C, One), Add(p, p)))))

\* its maximizer on [0, min(1, (C-1)/2)]
SingleDrawMaximizer(C) == Min(One, Div(Sub(C, One), Num(4)))

\* C13: when the objective is strictly unimodal with maximizer p*, p* stays in
\* [left, right] before and after every iteration, ties included, and the
\* returned optimalP is within tolerance / 2 of p*.  Stated for A = 1, where
\* the objective is the strictly concave SingleDrawObjective.
C13_MaximizerBracketed ==
    (op = "optimize" /\ pc \in {"search", "done"} /\ args.A = 1
        /\ LessEq(One, args.C)) =>
        LET pStar == SingleDrawMaximizer(args.C)
        IN  /\ \A i \in 1..Len(evals) :
                  calculateExpectationForP(evals[i], args.N, args.A, args.C)
                    = SingleDrawObjective(evals[i], args.N, args.C)
            /\ LessEq(left, pStar)
            /\ LessEq(pStar, right)
            /\ pc = "done" =>
                 LessEq(Add(Abs(Sub(ret.opt.optimalP, pStar)),
                            Abs(Sub(ret.opt.optimalP, pStar))), args.tol)

\* a search with A = 1 of two iterations or more, the first one a tie, whose
\* maximizer is inside the last interval
C13_Witness ==
    /\ OptimizeDone
    /\ args.A = 1
    /\ Less(One, args.C)
    /\ Len(evals) >= 5
    /\ calculateExpectationForP(evals[1], args.N, args.A, args.C)
         = calculateExpectationForP(evals[2], args.N, args.A, args.C)
    /\ Less(left, SingleDrawMaximizer(args.C))
    /\ Less(SingleDrawMaximizer(args.C), right)
    /\ ret.opt.optimalP # SingleDrawMaximizer(args.C)

----------------------------------------------------------------------------
\* Feasibility of every point findOptimalP and sensitivityAnalysis evaluate.

\* 0 <= p <= 1 and 2p <= C - 1, so that C - 2p >= 1
InsideFeasibleRange(p, C) ==
    /\ LessEq(Zero, p)
    /\ LessEq(p, One)
    /\ LessEq(Add(p, p), Sub(C, One))
    /\ LessEq(One, Sub(C, Add(p, p)))

\* C14: with C >= 1 every p at which findOptimalP or sensitivityAnalysis
\* evaluates the objective has 0 <= p <= min(1, (C-1)/2), so C - 2p >= 1 and
\* the objective is never -Infinity there; sensitivityAnalysis keeps every
\* point it evaluates, and findOptimalP returns a finite maxExpectation >= N.
C14_EvaluationsFeasible ==
    (op \in {"optimize", "sample"} /\ LessEq(One, args.C)) =>
        /\ \A i \in 1..Len(evals) :
              /\ InsideFeasibleRange(evals[i], args.C)
              /\ calculateExpectationForP(evals[i], args.N, args.A, args.C)
                   # NegInf
        /\ op = "sample" =>
              /\ Len(results) = Len(evals)
              /\ \A i \in 1..Len(results) : results[i].p = evals[i]
        /\ OptimizeDone =>
              /\ ret.opt.maxExpectation # NegInf
              /\ LessEq(Num(args.N), ret.opt.maxExpectation)

\* a search that iterated, with C above 3 so that the cap at 1 is the bound,
\* and returned more than N
C14_Witness ==
    /\ OptimizeDone
    /\ Less(Num(3), args.C)
    /\ Len(evals) >= 5
    /\ Less(Num(args.N), ret.opt.maxExpectation)

====
